---- MODULE Spec2Model ----
(***************************************************************************)
(* Model of pyreset.py (glFTPD UserStat Reset): the line resetter          *)
(* reset_stats_line, the record processor process_userfile and the batch   *)
(* driver main.  Text is modelled at character level: a string is a        *)
(* sequence of one-character strings, a file is the character sequence on  *)
(* disk, and readlines/split/startswith/in are computed as Python does.    *)
(***************************************************************************)
EXTENDS Integers, Sequences, FiniteSets, TLC

(***************************************************************************)
(* Bounds of the model.                                                    *)
(***************************************************************************)
MaxPieces == 2
MaxRuns == 2
MaxFiles == 2
MaxDay == 2

(***************************************************************************)
(* String literals of the program, as character sequences.                 *)
(***************************************************************************)
DAYUP == <<"D","A","Y","U","P">>
DAYDN == <<"D","A","Y","D","N">>
WKUP == <<"W","K","U","P">>
WKDN == <<"W","K","D","N">>
MONTHUP == <<"M","O","N","T","H","U","P">>
MONTHDN == <<"M","O","N","T","H","D","N">>
ALLUP == <<"A","L","L","U","P">>
ALLDN == <<"A","L","L","D","N">>
Tags == {DAYUP, DAYDN, WKUP, WKDN, MONTHUP, MONTHDN, ALLUP, ALLDN}
SECTION == <<"[","S","E","C","T","I","O","N","]">>
ENDSECTION == <<"[","E","N","D","S","E","C","T","I","O","N","]">>
SP == <<" ">>
NL == <<"\n">>
CRLF == <<"\r","\n">>
ZEROS == <<" ","0"," ","0"," ","0","\n">>

(***************************************************************************)
(* Python string primitives.                                               *)
(***************************************************************************)
\* str.startswith(prefix)
StartsWith(s, p) == Len(s) >= Len(p) /\ SubSeq(s, 1, Len(p)) = p

\* sub in s
Contains(sub, s) ==
    \E k \in 0..(Len(s) - Len(sub)) : SubSeq(s, k + 1, k + Len(sub)) = sub

\* the characters str.split() treats as separators
IsSpace(c) == c \in {" ", "\t", "\n", "\r"}

\* the positions 1..Len(s), in order
Positions(s) == [k \in 1..Len(s) |-> k]

\* str.split() with no argument: the maximal runs of non-whitespace
\* characters, in order (runs of whitespace separate, none are kept)
Split(s) ==
    LET starts == SelectSeq(Positions(s),
                      LAMBDA k : ~IsSpace(s[k]) /\ (k = 1 \/ IsSpace(s[k - 1])))
        ends == SelectSeq(Positions(s),
                      LAMBDA k : ~IsSpace(s[k]) /\ (k = Len(s) \/ IsSpace(s[k + 1])))
    IN  [j \in 1..Len(starts) |-> SubSeq(s, starts[j], ends[j])]

\* text-mode read with universal newlines: "\r\n" and a lone "\r" become "\n"
Translate(s) ==
    LET kept == SelectSeq(Positions(s),
                    LAMBDA k : ~(s[k] = "\n" /\ k > 1 /\ s[k - 1] = "\r"))
    IN  [j \in 1..Len(kept) |-> IF s[kept[j]] = "\r" THEN "\n" ELSE s[kept[j]]]

\* the lines of a text: each ends with its "\n", the last one may have none
SplitLines(t) ==
    LET ends == SelectSeq(Positions(t), LAMBDA k : t[k] = "\n")
        n == Len(ends)
        last == IF n = 0 THEN 0 ELSE ends[n]
    IN  [j \in 1..n |-> SubSeq(t, IF j = 1 THEN 1 ELSE ends[j - 1] + 1, ends[j])]
        \o (IF last < Len(t) THEN <<SubSeq(t, last + 1, Len(t))>> ELSE <<>>)

\* f.readlines() of a file opened with open(userfile, 'r')
readlines(content) == SplitLines(Translate(content))

RECURSIVE Flatten(_)
Flatten(ls) == IF ls = <<>> THEN <<>> ELSE Head(ls) \o Flatten(Tail(ls))

\* f.writelines(new_lines) on a file opened with open(userfile, 'w')
\* (POSIX: "\n" is written as "\n")
writelines(ls) == Flatten(ls)

(***************************************************************************)
(* Faulty variants of reset_stats_line: one zero short, the newline        *)
(* forgotten, the length test forgotten.                                   *)
(***************************************************************************)
reset_stats_line_ShortZeros(line, reset_type) ==
    IF Contains(reset_type, line)
    THEN LET parts == Split(line)
         IN  IF Len(parts) >= 4 THEN parts[1] \o <<" ","0"," ","0","\n">> ELSE line
    ELSE line

reset_stats_line_NoNewline(line, reset_type) ==
    IF Contains(reset_type, line)
    THEN LET parts == Split(line)
         IN  IF Len(parts) >= 4 THEN parts[1] \o <<" ","0"," ","0"," ","0">> ELSE line
    ELSE line

reset_stats_line_NoLengthTest(line, reset_type) ==
    IF Contains(reset_type, line)
    THEN LET parts == Split(line) IN parts[1] \o ZEROS
    ELSE line

(***************************************************************************)
(* reset_stats_line(line, reset_type)                                      *)
(***************************************************************************)
reset_stats_line(line, reset_type) ==
    IF Contains(reset_type, line)
    THEN LET parts == Split(line)
         IN  IF Len(parts) >= 4 THEN parts[1] \o ZEROS ELSE line
    ELSE line

(***************************************************************************)
(* State.                                                                  *)
(*   fs, dirExists, entries   the file system: contents of each file, and  *)
(*                            the listing of the user directory            *)
(*   args                     the parsed command line                      *)
(*   pc .. success_count      main's position and locals                   *)
(*   ppc .. raised            process_userfile's position, parameters and  *)
(*                            locals (ret: its return value)               *)
(*   stdout, opens, fs0       what was printed, which files were opened in *)
(*                            which mode, and the contents before the run  *)
(*   runs, prev               number of calls made by the record-level     *)
(*                            caller and the outcome of the previous call  *)
(***************************************************************************)
VARIABLES fs, dirExists, entries, args,
          pc, now, reset, userfiles, idx, success_count,
          ppc, param, lines, new_lines, in_section, modified, li, ret, raised,
          stdout, opens, fs0, runs, prev

envVars == <<dirExists, entries, args, fs0>>
mainVars == <<pc, now, reset, userfiles, idx, success_count>>
frameVars == <<lines, new_lines, in_section, modified, li>>
callerVars == <<runs, prev>>
vars == <<fs, dirExists, entries, args, pc, now, reset, userfiles, idx,
          success_count, ppc, param, lines, new_lines, in_section, modified,
          li, ret, raised, stdout, opens, fs0, runs, prev>>

Names == 1..MaxFiles
NoFlags == [day |-> FALSE, week |-> FALSE, month |-> FALSE, all |-> FALSE]
Selectors == [day : BOOLEAN, week : BOOLEAN, month : BOOLEAN, all : BOOLEAN]

(***************************************************************************)
(* process_userfile: the body of the for loop over lines.                  *)
(***************************************************************************)
\* faulty variant: the marker is looked for at the start of the line only
IsSectionStart_AtStart(line) == StartsWith(line, SECTION)

\* '[SECTION]' in line
IsSectionStart(line) == Contains(SECTION, line)

\* '[ENDSECTION]' in line
IsSectionEnd(line) == Contains(ENDSECTION, line)

\* faulty variant of the chain: the WKUP branch tests the day flag
DispatchWrongFlag(line, f) ==
    IF f.day /\ StartsWith(line, DAYUP \o SP)
    THEN [line |-> reset_stats_line(line, DAYUP), fired |-> TRUE]
    ELSE IF f.day /\ StartsWith(line, DAYDN \o SP)
    THEN [line |-> reset_stats_line(line, DAYDN), fired |-> TRUE]
    ELSE IF f.day /\ StartsWith(line, WKUP \o SP)
    THEN [line |-> reset_stats_line(line, WKUP), fired |-> TRUE]
    ELSE IF f.week /\ StartsWith(line, WKDN \o SP)
    THEN [line |-> reset_stats_line(line, WKDN), fired |-> TRUE]
    ELSE IF f.month /\ StartsWith(line, MONTHUP \o SP)
    THEN [line |-> reset_stats_line(line, MONTHUP), fired |-> TRUE]
    ELSE IF f.month /\ StartsWith(line, MONTHDN \o SP)
    THEN [line |-> reset_stats_line(line, MONTHDN), fired |-> TRUE]
    ELSE IF f.all /\ StartsWith(line, ALLUP \o SP)
    THEN [line |-> reset_stats_line(line, ALLUP), fired |-> TRUE]
    ELSE IF f.all /\ StartsWith(line, ALLDN \o SP)
    THEN [line |-> reset_stats_line(line, ALLDN), fired |-> TRUE]
    ELSE [line |-> line, fired |-> FALSE]

\* the if/elif chain inside "if in_section:"; fired is TRUE when a branch
\* ran (each branch sets modified = True)
Dispatch(line, f) ==
    IF f.day /\ StartsWith(line, DAYUP \o SP)
    THEN [line |-> reset_stats_line(line, DAYUP), fired |-> TRUE]
    ELSE IF f.day /\ StartsWith(line, DAYDN \o SP)
    THEN [line |-> reset_stats_line(line, DAYDN), fired |-> TRUE]
    ELSE IF f.week /\ StartsWith(line, WKUP \o SP)
    THEN [line |-> reset_stats_line(line, WKUP), fired |-> TRUE]
    ELSE IF f.week /\ StartsWith(line, WKDN \o SP)
    THEN [line |-> reset_stats_line(line, WKDN), fired |-> TRUE]
    ELSE IF f.month /\ StartsWith(line, MONTHUP \o SP)
    THEN [line |-> reset_stats_line(line, MONTHUP), fired |-> TRUE]
    ELSE IF f.month /\ StartsWith(line, MONTHDN \o SP)
    THEN [line |-> reset_stats_line(line, MONTHDN), fired |-> TRUE]
    ELSE IF f.all /\ StartsWith(line, ALLUP \o SP)
    THEN [line |-> reset_stats_line(line, ALLUP), fired |-> TRUE]
    ELSE IF f.all /\ StartsWith(line, ALLDN \o SP)
    THEN [line |-> reset_stats_line(line, ALLDN), fired |-> TRUE]
    ELSE [line |-> line, fired |-> FALSE]

\* faulty variant of the gate: the section state is not consulted
GateAlways(insec) == TRUE

\* "if in_section:" - the gate in front of the dispatch
Gate(insec) == insec

\* faulty variant of the append: the line is appended twice
AppendTwice(ls, line) == Append(Append(ls, line), line)

\* new_lines.append(line)
AppendLine(ls, line) == Append(ls, line)

\* faulty variant of the write gate: the record is always written
ShouldWriteAlways(m) == TRUE

\* "if modified:" - the gate in front of the write
ShouldWrite(m) == m

\* the flags process_userfile was called with
Flags == [day |-> param.reset_day, week |-> param.reset_week,
          month |-> param.reset_month, all |-> param.reset_all]

(***************************************************************************)
(* process_userfile, step by step.  ppc: "idle" (not called), "open_r"     *)
(* (called, about to open and read), "for" (in the loop, li is the index   *)
(* of the next line), "returned".                                          *)
(***************************************************************************)

\* faulty variant of the read: in_section is not set anew, the call starts
\* with the value the call before left
ReadOk_KeepSection ==
    /\ ppc = "open_r"
    /\ lines' = readlines(fs[param.userfile])
    /\ modified' = FALSE
    /\ new_lines' = <<>>
    /\ li' = 1
    /\ ppc' = "for"
    /\ opens' = Append(opens, <<param.userfile, "r">>)
    /\ UNCHANGED <<fs, envVars, mainVars, callerVars, param, ret, raised, stdout,
                   in_section>>

\* with open(userfile, 'r') as f: lines = f.readlines(), then the locals
ReadOk ==
    /\ ppc = "open_r"
    /\ lines' = readlines(fs[param.userfile])
    /\ modified' = FALSE
    /\ new_lines' = <<>>
    /\ in_section' = FALSE
    /\ li' = 1
    /\ ppc' = "for"
    /\ opens' = Append(opens, <<param.userfile, "r">>)
    /\ UNCHANGED <<fs, envVars, mainVars, callerVars, param, ret, raised, stdout>>

\* faulty variant of the except branch: the exception is not caught and
\* leaves process_userfile
ExceptUncaught(f) ==
    /\ stdout' = Append(stdout, <<"Traceback", f>>)
    /\ ret' = "none"
    /\ raised' = TRUE
    /\ ppc' = "raise"

\* the except branch: print the error, return False
Except(f) ==
    /\ stdout' = Append(stdout, <<"Error processing", f>>)
    /\ ret' = FALSE
    /\ raised' = TRUE
    /\ ppc' = "returned"

\* open(userfile, 'r') or readlines() raises
ReadFail ==
    /\ ppc = "open_r"
    /\ Except(param.userfile)
    /\ opens' = Append(opens, <<param.userfile, "r">>)
    /\ UNCHANGED <<fs, envVars, mainVars, callerVars, param, frameVars>>

\* faulty variant of the iteration: the two "continue" statements are
\* missing, so a marker line is appended and then goes on to the dispatch
LoopStep_NoContinue ==
    /\ ppc = "for"
    /\ li <= Len(lines)
    /\ LET line == lines[li]
           insec == IF IsSectionStart(line) THEN TRUE
                    ELSE IF IsSectionEnd(line) THEN FALSE
                    ELSE in_section
           seen == IF IsSectionStart(line) \/ IsSectionEnd(line)
                   THEN AppendLine(new_lines, line)
                   ELSE new_lines
       IN  /\ in_section' = insec
           /\ IF Gate(insec)
              THEN LET d == Dispatch(line, Flags)
                   IN  /\ modified' = (modified \/ d.fired)
                       /\ new_lines' = AppendLine(seen, d.line)
              ELSE /\ new_lines' = AppendLine(seen, line)
                   /\ UNCHANGED modified
    /\ li' = li + 1
    /\ UNCHANGED <<fs, envVars, mainVars, callerVars, ppc, param, lines, ret,
                   raised, stdout, opens>>

\* one iteration of "for line in lines:"
LoopStep ==
    /\ ppc = "for"
    /\ li <= Len(lines)
    /\ LET line == lines[li]
       IN  IF IsSectionStart(line)
           THEN /\ in_section' = TRUE
                /\ new_lines' = AppendLine(new_lines, line)
                /\ UNCHANGED modified
           ELSE IF IsSectionEnd(line)
           THEN /\ in_section' = FALSE
                /\ new_lines' = AppendLine(new_lines, line)
                /\ UNCHANGED modified
           ELSE IF Gate(in_section)
           THEN LET d == Dispatch(line, Flags)
                IN  /\ modified' = (modified \/ d.fired)
                    /\ new_lines' = AppendLine(new_lines, d.line)
                    /\ UNCHANGED in_section
           ELSE /\ new_lines' = AppendLine(new_lines, line)
                /\ UNCHANGED <<in_section, modified>>
    /\ li' = li + 1
    /\ UNCHANGED <<fs, envVars, mainVars, callerVars, ppc, param, lines, ret,
                   raised, stdout, opens>>

AtLoopEnd == ppc = "for" /\ li > Len(lines)

\* if modified: open(userfile, 'w'), f.writelines(new_lines), return True
WriteOk ==
    /\ AtLoopEnd
    /\ ShouldWrite(modified)
    /\ fs' = [fs EXCEPT ![param.userfile] = writelines(new_lines)]
    /\ opens' = Append(opens, <<param.userfile, "w">>)
    /\ ret' = TRUE
    /\ ppc' = "returned"
    /\ UNCHANGED <<envVars, mainVars, callerVars, param, frameVars, raised, stdout>>

\* open(userfile, 'w') raises: the file is not truncated
WriteOpenFail ==
    /\ AtLoopEnd
    /\ ShouldWrite(modified)
    /\ Except(param.userfile)
    /\ opens' = Append(opens, <<param.userfile, "w">>)
    /\ UNCHANGED <<fs, envVars, mainVars, callerVars, param, frameVars>>

\* open(userfile, 'w') has truncated the file, then writelines() or the
\* closing flush raises: only the first n lines have reached the file
WriteFail ==
    /\ AtLoopEnd
    /\ ShouldWrite(modified)
    /\ \E n \in 0..(Len(new_lines) - 1) :
          fs' = [fs EXCEPT ![param.userfile] = writelines(SubSeq(new_lines, 1, n))]
    /\ Except(param.userfile)
    /\ opens' = Append(opens, <<param.userfile, "w">>)
    /\ UNCHANGED <<envVars, mainVars, callerVars, param, frameVars>>

\* return False after the loop
ReturnFalse ==
    /\ AtLoopEnd
    /\ ~ShouldWrite(modified)
    /\ ret' = FALSE
    /\ ppc' = "returned"
    /\ UNCHANGED <<fs, envVars, mainVars, callerVars, param, frameVars, raised,
                   stdout, opens>>

process_userfile ==
    \/ ReadOk \/ ReadFail \/ LoopStep
    \/ WriteOk \/ WriteOpenFail \/ WriteFail \/ ReturnFalse

(***************************************************************************)
(* Record-level caller: process_userfile is called on one record with some *)
(* flags, and called again with the same flags on what a call that         *)
(* completed has left, up to MaxRuns calls.                                *)
(***************************************************************************)
NoCall == [called |-> FALSE]

\* what a finished call leaves behind
Outcome == [called |-> TRUE, lines |-> lines, new_lines |-> new_lines,
            ret |-> ret, raised |-> raised, before |-> fs0[param.userfile],
            after |-> fs[param.userfile]]

\* process_userfile(userfile, reset_day, reset_week, reset_month, reset_all)
Call ==
    /\ pc = "record"
    /\ ppc = "idle" \/ (ppc = "returned" /\ ~raised)
    /\ runs < MaxRuns
    /\ runs' = runs + 1
    /\ prev' = IF ppc = "returned" THEN Outcome ELSE NoCall
    /\ fs0' = fs
    /\ ppc' = "open_r"
    /\ ret' = "none"
    /\ raised' = FALSE
    /\ lines' = <<>>
    /\ new_lines' = <<>>
    /\ in_section' = FALSE
    /\ modified' = FALSE
    /\ li' = 1
    /\ opens' = <<>>
    /\ stdout' = <<>>
    /\ UNCHANGED <<fs, dirExists, entries, args, mainVars, param>>

(***************************************************************************)
(* Records the record-level runs start from: up to MaxPieces pieces of     *)
(* text, written one after the other, for one counter tag.                 *)
(***************************************************************************)
Pieces(t) ==
    { SECTION \o NL,
      ENDSECTION \o NL,
      t \o <<" ","0"," ","0"," ","0","\n">>,
      t \o <<" ","5","\n">>,
      t \o <<" ","5"," ","2"," ","3"," ","4">>,
      SECTION \o CRLF \o t \o <<" ","5"," ","2"," ","3">> \o CRLF
          \o ENDSECTION \o CRLF,
      t \o <<" ","5"," ","2"," ","3"," ">> \o ENDSECTION \o SECTION \o NL }

RECURSIVE SeqsUpTo(_, _)
SeqsUpTo(S, n) ==
    IF n = 0 THEN {<<>>}
    ELSE LET shorter == SeqsUpTo(S, n - 1)
         IN  shorter \cup {Append(q, x) : q \in shorter, x \in S}

RecordContents(t) == {Flatten(q) : q \in SeqsUpTo(Pieces(t), MaxPieces)}

InitRecord ==
    /\ \E t \in Tags : \E c \in RecordContents(t) :
          /\ fs = [n \in Names |-> IF n = 1 THEN c ELSE <<>>]
          /\ fs0 = fs
    /\ \E f \in Selectors :
          param = [userfile |-> 1, reset_day |-> f.day, reset_week |-> f.week,
                   reset_month |-> f.month, reset_all |-> f.all]
    /\ dirExists = TRUE
    /\ entries = <<>>
    /\ args = [help |-> FALSE, monday |-> FALSE, day |-> FALSE, week |-> FALSE,
               month |-> FALSE, alltime |-> FALSE]
    /\ pc = "record"
    /\ now = "none"
    /\ reset = NoFlags
    /\ userfiles = <<>>
    /\ idx = 1
    /\ success_count = 0
    /\ ppc = "idle"
    /\ lines = <<>>
    /\ new_lines = <<>>
    /\ in_section = FALSE
    /\ modified = FALSE
    /\ li = 1
    /\ ret = "none"
    /\ raised = FALSE
    /\ stdout = <<>>
    /\ opens = <<>>
    /\ runs = 0
    /\ prev = NoCall

NextRecord == Call \/ process_userfile

SpecRecord == InitRecord /\ [][NextRecord]_vars

(***************************************************************************)
(* main.  pc: "start", "list" (flags resolved, about to list the           *)
(* directory), "for" (in the loop over userfiles, idx is the index of the  *)
(* next one), "done", "exit0", "exit1"; "record" is the record-level       *)
(* caller above.                                                           *)
(***************************************************************************)
Weekdays == 0..6
Days == 1..MaxDay

\* if args.help: print the help screen, sys.exit(0)
Help ==
    /\ pc = "start"
    /\ args.help
    /\ stdout' = Append(stdout, <<"help">>)
    /\ pc' = "exit0"
    /\ UNCHANGED <<fs, envVars, now, reset, userfiles, idx, success_count, ppc,
                   param, frameVars, ret, raised, opens, callerVars>>

\* if not os.path.exists(userfile_dir): print, sys.exit(1)
DirNotFound ==
    /\ pc = "start"
    /\ ~args.help
    /\ ~dirExists
    /\ stdout' = Append(stdout, <<"Error: User directory not found">>)
    /\ pc' = "exit1"
    /\ UNCHANGED <<fs, envVars, now, reset, userfiles, idx, success_count, ppc,
                   param, frameVars, ret, raised, opens, callerVars>>

\* any([reset_day, reset_week, reset_month, reset_all])
AnyFlag(a) == a.day \/ a.week \/ a.month \/ a.alltime

\* faulty variant: the two week days are swapped
reset_week_day_Swapped(a) == IF a.monday THEN 6 ELSE 0

\* reset_week_day = 0 if args.monday else 6
reset_week_day(a) == IF a.monday THEN 0 ELSE 6

\* the flags are those of the command line
ResolveExplicit ==
    /\ pc = "start"
    /\ ~args.help
    /\ dirExists
    /\ AnyFlag(args)
    /\ reset' = [day |-> args.day, week |-> args.week, month |-> args.month,
                 all |-> args.alltime]
    /\ pc' = "list"
    /\ UNCHANGED <<fs, envVars, now, userfiles, idx, success_count, ppc, param,
                   frameVars, ret, raised, stdout, opens, callerVars>>

\* no flag on the command line: now = datetime.now() decides
ResolveByDate ==
    /\ pc = "start"
    /\ ~args.help
    /\ dirExists
    /\ ~AnyFlag(args)
    /\ \E wd \in Weekdays, d \in Days :
          /\ now' = [weekday |-> wd, day |-> d]
          /\ reset' = [day |-> TRUE, week |-> (wd = reset_week_day(args)),
                       month |-> (d = 1), all |-> args.alltime]
          /\ stdout' = stdout
                \o (IF wd = reset_week_day(args)
                    THEN << <<"Weekly reset triggered">> >> ELSE <<>>)
                \o (IF d = 1 THEN << <<"Monthly reset triggered">> >> ELSE <<>>)
    /\ pc' = "list"
    /\ UNCHANGED <<fs, envVars, userfiles, idx, success_count, ppc, param,
                   frameVars, ret, raised, opens, callerVars>>

\* faulty variant of the listing: os.path.isfile is not asked
RECURSIVE RegularFilesUnfiltered(_)
RegularFilesUnfiltered(es) ==
    IF es = <<>> THEN <<>>
    ELSE <<Head(es).name>> \o RegularFilesUnfiltered(Tail(es))

\* for item in os.listdir(userfile_dir): if os.path.isfile(filepath): append
RECURSIVE RegularFiles(_)
RegularFiles(es) ==
    IF es = <<>> THEN <<>>
    ELSE (IF Head(es).isfile THEN <<Head(es).name>> ELSE <<>>)
         \o RegularFiles(Tail(es))

\* if not userfiles: print, sys.exit(1)
ListEmpty ==
    /\ pc = "list"
    /\ RegularFiles(entries) = <<>>
    /\ userfiles' = <<>>
    /\ stdout' = Append(stdout, <<"No userfiles found">>)
    /\ pc' = "exit1"
    /\ UNCHANGED <<fs, envVars, now, reset, idx, success_count, ppc, param,
                   frameVars, ret, raised, opens, callerVars>>

\* print("Processing n userfiles..."), success_count = 0
ListFiles ==
    /\ pc = "list"
    /\ RegularFiles(entries) # <<>>
    /\ userfiles' = RegularFiles(entries)
    /\ stdout' = Append(stdout, <<"Processing", Len(userfiles')>>)
    /\ success_count' = 0
    /\ idx' = 1
    /\ pc' = "for"
    /\ UNCHANGED <<fs, envVars, now, reset, ppc, param, frameVars, ret, raised,
                   opens, callerVars>>

\* for userfile in userfiles: process_userfile(userfile, reset_day, ...)
ForCall ==
    /\ pc = "for"
    /\ ppc = "idle"
    /\ idx <= Len(userfiles)
    /\ param' = [userfile |-> userfiles[idx], reset_day |-> reset.day,
                 reset_week |-> reset.week, reset_month |-> reset.month,
                 reset_all |-> reset.all]
    /\ ppc' = "open_r"
    /\ ret' = "none"
    /\ raised' = FALSE
    /\ UNCHANGED <<fs, envVars, mainVars, frameVars, stdout, opens, callerVars>>

\* faulty variant: the return value of process_userfile is not looked at
ForReturn_AlwaysCounts ==
    /\ pc = "for"
    /\ ppc = "returned"
    /\ success_count' = success_count + 1
    /\ idx' = idx + 1
    /\ ppc' = "idle"
    /\ UNCHANGED <<fs, envVars, pc, now, reset, userfiles, param, frameVars,
                   ret, raised, stdout, opens, callerVars>>

\* if process_userfile(...): success_count += 1
ForReturn ==
    /\ pc = "for"
    /\ ppc = "returned"
    /\ success_count' = IF ret = TRUE THEN success_count + 1 ELSE success_count
    /\ idx' = idx + 1
    /\ ppc' = "idle"
    /\ UNCHANGED <<fs, envVars, pc, now, reset, userfiles, param, frameVars,
                   ret, raised, stdout, opens, callerVars>>

\* the prints after the loop
Finish ==
    /\ pc = "for"
    /\ ppc = "idle"
    /\ idx > Len(userfiles)
    /\ stdout' = Append(stdout, <<"Successfully reset stats in", success_count>>)
    /\ pc' = "done"
    /\ UNCHANGED <<fs, envVars, now, reset, userfiles, idx, success_count, ppc,
                   param, frameVars, ret, raised, opens, callerVars>>

main ==
    \/ Help \/ DirNotFound \/ ResolveExplicit \/ ResolveByDate
    \/ ListEmpty \/ ListFiles \/ ForCall \/ ForReturn \/ Finish

(***************************************************************************)
(* The runs of the program: a user directory of up to MaxFiles entries.    *)
(***************************************************************************)
BatchContents ==
    { SECTION \o NL \o DAYUP \o <<" ","5"," ","2"," ","3","\n">>,
      SECTION \o NL \o WKUP \o <<" ","5"," ","2"," ","3","\n">>
          \o ENDSECTION \o NL,
      SECTION \o NL \o MONTHDN \o <<" ","5"," ","2"," ","3","\n">>
          \o ALLUP \o <<" ","5"," ","2"," ","3","\n">> \o ENDSECTION \o NL,
      DAYUP \o <<" ","5"," ","2"," ","3","\n">> }

Init ==
    /\ dirExists \in BOOLEAN
    /\ \E n \in 0..MaxFiles :
          /\ entries \in [1..n -> [name : 1..n, isfile : BOOLEAN]]
          /\ \A i \in 1..n : entries[i].name = i
          /\ fs \in [Names -> BatchContents \cup {<<>>}]
          /\ \A i \in Names :
                fs[i] = <<>> <=> (i > n \/ ~entries[i].isfile)
          /\ ~dirExists => n = 0
    /\ fs0 = fs
    /\ args \in [help : BOOLEAN, monday : BOOLEAN, day : BOOLEAN, week : BOOLEAN,
                 month : BOOLEAN, alltime : BOOLEAN]
    /\ pc = "start"
    /\ now = "none"
    /\ reset = NoFlags
    /\ userfiles = <<>>
    /\ idx = 1
    /\ success_count = 0
    /\ ppc = "idle"
    /\ param = [userfile |-> 1, reset_day |-> FALSE, reset_week |-> FALSE,
                reset_month |-> FALSE, reset_all |-> FALSE]
    /\ lines = <<>>
    /\ new_lines = <<>>
    /\ in_section = FALSE
    /\ modified = FALSE
    /\ li = 1
    /\ ret = "none"
    /\ raised = FALSE
    /\ stdout = <<>>
    /\ opens = <<>>
    /\ runs = 0
    /\ prev = NoCall

Next == main \/ process_userfile

Spec == Init /\ [][Next]_vars

(***************************************************************************)
(* Vocabulary of the properties.                                           *)
(***************************************************************************)
\* a line carrying a section marker
IsMarker(line) == Contains(SECTION, line) \/ Contains(ENDSECTION, line)

\* line i of ls lies inside a section region: a [SECTION] marker precedes it
\* with no marker between the two
Inside(ls, i) ==
    \E j \in 1..(i - 1) :
        /\ Contains(SECTION, ls[j])
        /\ \A k \in (j + 1)..(i - 1) : ~IsMarker(ls[k])

\* the flag that governs a tag
Governs(t, f) ==
    IF t \in {DAYUP, DAYDN} THEN f.day
    ELSE IF t \in {WKUP, WKDN} THEN f.week
    ELSE IF t \in {MONTHUP, MONTHDN} THEN f.month
    ELSE f.all

\* the line starts with the tag followed by a space
HasPrefix(line, t) == StartsWith(line, t \o SP)

\* number of whitespace-separated tokens of a line
Tokens(line) == Len(Split(line))

\* the lines emitted so far, one per line consumed
Emitted == 1..Len(new_lines)

\* the call has consumed every line of the record it read
Completed == ppc = "returned" /\ (raised => Len(opens) = 2)

\* the call has opened the record for writing
OpenedForWrite == \E k \in 1..Len(opens) : opens[k][2] = "w"

\* C1: every non-marker line inside the section region that starts with a
\* counter prefix and a space, has 4 or more tokens and whose governing flag
\* is set is emitted as "<tag> 0 0 0\n"
C1_SelectivitySet ==
    \A i \in Emitted : \A t \in Tags :
        ( /\ HasPrefix(lines[i], t)
          /\ Governs(t, Flags)
          /\ Tokens(lines[i]) >= 4
          /\ ~IsMarker(lines[i])
          /\ Inside(lines, i) )
        => new_lines[i] = t \o <<" ","0"," ","0"," ","0","\n">>

\* a selected line of 5 or more tokens inside the section has been emitted
C1_Witness ==
    \E i \in Emitted : \E t \in Tags :
        /\ ~IsMarker(lines[i])
        /\ Inside(lines, i)
        /\ HasPrefix(lines[i], t)
        /\ Tokens(lines[i]) >= 5
        /\ Governs(t, Flags)
        /\ new_lines[i] # lines[i]

\* C2: every line outside a section region is emitted equal to its input,
\* whatever the flags
C2_Locality ==
    \A i \in Emitted : new_lines[i] = lines[i] \/ Inside(lines, i)

\* a well-formed counter line whose flag is set has been emitted after a
\* section was closed
C2_Witness ==
    \E i \in Emitted : \E t \in Tags : \E j \in 1..(i - 1) :
        /\ Contains(ENDSECTION, lines[j])
        /\ Inside(lines, j)
        /\ ~Inside(lines, i)
        /\ HasPrefix(lines[i], t)
        /\ Tokens(lines[i]) >= 4
        /\ Governs(t, Flags)

\* C3: a counter line whose own governing flag is unset is emitted equal to
\* its input, whatever the other three flags are
C3_SelectivityUnset ==
    \A i \in Emitted : \A t \in Tags :
        (HasPrefix(lines[i], t) /\ ~Governs(t, Flags))
        => new_lines[i] = lines[i]

\* a well-formed week line inside the section has been emitted under a
\* selector with day, month and all-time set and week unset
C3_Witness ==
    \E i \in Emitted :
        /\ HasPrefix(lines[i], WKUP)
        /\ Inside(lines, i)
        /\ ~IsMarker(lines[i])
        /\ Tokens(lines[i]) >= 4
        /\ Flags = [day |-> TRUE, week |-> FALSE, month |-> TRUE, all |-> TRUE]

\* C4: if no emitted line differs from its input line, the call returns
\* False and the record is not opened for writing
C4_NonMutationSignaling ==
    (ppc = "returned" /\ new_lines = lines) => (ret = FALSE /\ ~OpenedForWrite)

\* C5: a second call with the same flags on what a first call left emits
\* the line sequence the first call emitted
C5_IdempotentContent ==
    (prev.called /\ Completed) => new_lines = prev.new_lines

\* the second call has completed on a record the first call has rewritten
\* with a changed line
C5_Witness ==
    /\ prev.called
    /\ Completed
    /\ prev.ret = TRUE
    /\ prev.new_lines # prev.lines
    /\ prev.after # prev.before

\* C6: the second of two calls in succession with the same flags returns
\* False and does not write
C6_IdempotentFlag ==
    (prev.called /\ ppc = "returned") => (ret = FALSE /\ ~OpenedForWrite)

\* C7: a line that starts with a counter prefix and a space but has fewer
\* than 4 tokens is emitted unchanged, and consuming it raises nothing
C7_MalformedUntouched ==
    /\ \A i \in Emitted : \A t \in Tags :
          (HasPrefix(lines[i], t) /\ Tokens(lines[i]) < 4)
          => new_lines[i] = lines[i]
    /\ ppc = "for" => (~raised /\ stdout = <<>>)

\* a malformed line whose flag is set has been emitted inside the section
C7_Witness ==
    \E i \in Emitted : \E t \in Tags :
        /\ HasPrefix(lines[i], t)
        /\ Tokens(lines[i]) < 4
        /\ Inside(lines, i)
        /\ ~IsMarker(lines[i])
        /\ Governs(t, Flags)

\* the reset form of a line: its first token followed by three zeros
ResetForm(line) == Split(line)[1] \o <<" ","0"," ","0"," ","0","\n">>

\* C8: one line is emitted per line consumed, and the i-th emitted line is
\* the i-th input line or its reset form
C8_LineSequence ==
    /\ ppc = "for" => Len(new_lines) = li - 1
    /\ Completed => Len(new_lines) = Len(lines)
    /\ \A i \in Emitted :
          /\ i <= Len(lines)
          /\ \/ new_lines[i] = lines[i]
             \/ Split(lines[i]) # <<>> /\ new_lines[i] = ResetForm(lines[i])

\* a call has completed on a record of 3 or more lines, some reset, some
\* kept, among them a marker
C8_Witness ==
    /\ Completed
    /\ Len(lines) >= 3
    /\ \E i \in Emitted : new_lines[i] # lines[i]
    /\ \E i \in Emitted : new_lines[i] = lines[i] /\ IsMarker(lines[i])

\* no line inside a section region starts with a prefix whose flag is set
NoSelectedLine(ls, f) ==
    \A i \in 1..Len(ls) : \A t \in Tags :
        ~(HasPrefix(ls[i], t) /\ Governs(t, f) /\ ~IsMarker(ls[i]) /\ Inside(ls, i))

\* the call has read its record
ReadDone == ppc \in {"for", "returned"} /\ ~(raised /\ Len(opens) = 1)

\* C9: on a record that has no selected line inside a section, the call
\* returns False, never opens the record for writing and reports no error
C9_NoOpRecord ==
    (ReadDone /\ NoSelectedLine(lines, Flags))
    => /\ ~OpenedForWrite
       /\ ~raised
       /\ stdout = <<>>
       /\ ppc = "returned" => ret = FALSE

\* a call under the week-only selector has returned on a record whose
\* section holds a well-formed day line
C9_Witness ==
    /\ ppc = "returned"
    /\ ReadDone
    /\ Flags = [day |-> FALSE, week |-> TRUE, month |-> FALSE, all |-> FALSE]
    /\ NoSelectedLine(lines, Flags)
    /\ \E i \in 1..Len(lines) :
          /\ Inside(lines, i)
          /\ HasPrefix(lines[i], DAYUP)
          /\ Tokens(lines[i]) >= 4

\* the files process_userfile was called on, in the order of the calls
Attempts ==
    LET rs == SelectSeq(opens, LAMBDA o : o[2] = "r")
    IN  [k \in 1..Len(rs) |-> rs[k][1]]

\* an error was printed for file f
ErrorPrinted(f) == \E k \in 1..Len(stdout) : stdout[k] = <<"Error processing", f>>

\* process_userfile is at a statement it can execute
ProcessCanStep == ppc = "open_r" \/ (ppc = "for" /\ li <= Len(lines)) \/ AtLoopEnd

\* C10: a call that fails on read or on write reports the record and
\* returns False; the records are attempted once each, in enumeration
\* order; the loop over the batch is never stuck, and at the end of the run
\* every record has been attempted
C10_BatchSurvivesFailure ==
    /\ (ppc = "returned" /\ raised)
          => (ret = FALSE /\ ErrorPrinted(param.userfile))
    /\ pc \in {"for", "done"}
          => /\ Len(Attempts) <= Len(userfiles)
             /\ Attempts = SubSeq(userfiles, 1, Len(Attempts))
             /\ idx <= Len(userfiles) + 1
    /\ pc = "for" => (ProcessCanStep \/ ENABLED main)
    /\ pc = "done" => Attempts = userfiles

\* the run has ended after the first record of two failed and the second
\* was rewritten
C10_Witness ==
    /\ pc = "done"
    /\ Len(userfiles) = 2
    /\ ErrorPrinted(userfiles[1])
    /\ ~ErrorPrinted(userfiles[2])
    /\ success_count = 1
    /\ fs[userfiles[2]] # fs0[userfiles[2]]

\* what a record of lines ls becomes under the flags f, line by line: markers
\* and lines outside a section region as they are, the others dispatched
Expected(ls, f) ==
    [i \in 1..Len(ls) |->
        IF IsMarker(ls[i]) \/ ~Inside(ls, i) THEN ls[i] ELSE Dispatch(ls[i], f).line]

\* the complete transformed contents of file n under the flags of the call
Transformed(n) == writelines(Expected(readlines(fs0[n]), Flags))

\* C11: in every state the contents of every record file are its complete
\* original contents or its complete transformed contents
C11_AtomicRewrite ==
    \A n \in Names : fs[n] = fs0[n] \/ fs[n] = Transformed(n)

\* the configured directory does not exist, or no entry directly inside it
\* is a regular file
ConfigFailure ==
    ~dirExists \/ \A k \in 1..Len(entries) : ~entries[k].isfile

\* no record has been opened, read or written, and none is being processed
NothingTouched ==
    opens = <<>> /\ fs = fs0 /\ ppc = "idle" /\ userfiles = <<>>

\* only regular files of the directory are passed to process_userfile
OnlyRegularFiles ==
    /\ \A k \in 1..Len(userfiles) :
          \E e \in 1..Len(entries) :
              entries[e].name = userfiles[k] /\ entries[e].isfile
    /\ \A k \in 1..Len(opens) :
          \E e \in 1..Len(entries) :
              entries[e].name = opens[k][1] /\ entries[e].isfile
    /\ ppc # "idle" =>
          \E e \in 1..Len(entries) :
              entries[e].name = param.userfile /\ entries[e].isfile

\* C12 as stated: on a configuration failure the run can only end with the
\* failure exit, and no record is touched; only regular files are processed
C12_ConfigFailureFatal_Original ==
    /\ ConfigFailure =>
          /\ NothingTouched
          /\ pc \in {"start", "list", "exit1"}
          /\ pc \in {"start", "list"} => ENABLED main
    /\ OnlyRegularFiles

\* C12 amended: on a configuration failure no record is touched and the run
\* can only end with the failure exit, or with exit 0 when help was asked
\* for (the directory is then not looked at); only regular files are
\* processed
C12_ConfigFailureFatal ==
    /\ ConfigFailure =>
          /\ NothingTouched
          /\ pc \in {"start", "list", "exit0", "exit1"}
          /\ pc = "exit0" <=> (args.help /\ pc # "start")
          /\ pc \in {"start", "list"} => ENABLED main
    /\ OnlyRegularFiles

\* the run has ended with the failure exit on a directory that exists and
\* holds only subdirectories
C12_Witness ==
    /\ pc = "exit1"
    /\ dirExists
    /\ Len(entries) >= 1
    /\ ConfigFailure
    /\ NothingTouched

\* main has resolved the flags
Resolved == pc \in {"list", "for", "done"} \/ (pc = "exit1" /\ dirExists)

\* at least one of the four explicit flags is on the command line
ExplicitGiven == args.day \/ args.week \/ args.month \/ args.alltime

\* the selector main must have resolved, the default week day being wd
\* (datetime.weekday(): Monday is 0, Saturday 5, Sunday 6)
SelectorResolved(wd) ==
    IF ExplicitGiven
    THEN /\ now = "none"
         /\ reset = [day |-> args.day, week |-> args.week, month |-> args.month,
                     all |-> args.alltime]
    ELSE reset = [day |-> TRUE,
                  week |-> (now.weekday = IF args.monday THEN 0 ELSE wd),
                  month |-> (now.day = 1),
                  all |-> FALSE]

\* every call of process_userfile gets the resolved selector
SelectorPassed == (pc = "for" /\ ppc # "idle") => Flags = reset

\* C13 as stated: without the override the week flag is derived from the
\* last day of a Sunday-start week, which is Saturday
C13_SelectorResolution_Original ==
    /\ Resolved => SelectorResolved(5)
    /\ SelectorPassed

\* C13 amended: without the override the week flag is derived from Sunday
\* (weekday() = 6, the last day of a Monday-start week), with it from Monday;
\* explicit flags are taken as they are and the date is not consulted; day
\* is always set, month on day 1, all-time never; every call gets the
\* selector resolved once
C13_SelectorResolution ==
    /\ Resolved => SelectorResolved(6)
    /\ SelectorPassed

\* a second record is being processed under the selector derived on a
\* Sunday, the first of the month, without the override
C13_Witness ==
    /\ pc = "for"
    /\ idx = 2
    /\ ppc = "for"
    /\ ~ExplicitGiven
    /\ ~args.monday
    /\ now = [weekday |-> 6, day |-> 1]
    /\ Flags = [day |-> TRUE, week |-> TRUE, month |-> TRUE, all |-> FALSE]

\* the lines of a file with the terminators they have in the file (no
\* translation of newlines; the records hold no lone carriage return)
RawLines(content) == SplitLines(content)

\* C14: when the record has been rewritten, every line the call left
\* unchanged stands in the file as it stood in the original file, its
\* terminator (LF, CRLF or none) included
C14_TerminatorsPreserved ==
    (ppc = "returned" /\ ret = TRUE)
    => \A i \in 1..Len(lines) :
          new_lines[i] = lines[i]
          => /\ i <= Len(RawLines(fs[param.userfile]))
             /\ i <= Len(RawLines(fs0[param.userfile]))
             /\ RawLines(fs[param.userfile])[i] = RawLines(fs0[param.userfile])[i]

\* the lines the loop has consumed
Consumed == 1..(li - 1)

\* C15: a line containing [SECTION] or [ENDSECTION] is emitted unchanged,
\* whatever its prefix, its tokens, the flags and the section state; and the
\* record counts as modified only if a consumed line that is not a marker
\* lies inside a section and starts with a prefix whose flag is set
C15_MarkersNeverReset ==
    /\ \A i \in Consumed :
          (i <= Len(new_lines) /\ IsMarker(lines[i])) => new_lines[i] = lines[i]
    /\ modified
       => \E i \in Consumed :
             /\ ~IsMarker(lines[i])
             /\ \E t \in Tags : HasPrefix(lines[i], t) /\ Governs(t, Flags)
             /\ Inside(lines, i)

\* the call has returned unmodified from a record in which a marker line
\* with a selected counter prefix and 4 or more tokens lies inside a section
C15_Witness ==
    /\ ppc = "returned"
    /\ ~raised
    /\ ~modified
    /\ ret = FALSE
    /\ \E i \in 1..Len(lines) :
          /\ IsMarker(lines[i])
          /\ \E t \in Tags : HasPrefix(lines[i], t) /\ Governs(t, Flags)
          /\ Tokens(lines[i]) >= 4
          /\ Inside(lines, i)
          /\ new_lines[i] = lines[i]

\* C16: after any prefix of the lines, in_section is true exactly when a
\* marker has been seen and the latest one contains [SECTION]; and the line
\* just consumed was emitted as that state commands, be it in a first or a
\* later section, after a repeated [SECTION] or in a section never closed
C16_SectionState ==
    ReadDone
    => /\ in_section = Inside(lines, li)
       /\ (li > 1 /\ li - 1 <= Len(new_lines))
          => new_lines[li - 1] = Expected(lines, Flags)[li - 1]

\* the call has returned from a record with two [SECTION]...[ENDSECTION]
\* pairs, having reset the counter line of each
C16_Witness ==
    /\ ppc = "returned"
    /\ ~raised
    /\ ~in_section
    /\ Len(lines) = 6
    /\ Len(new_lines) = 6
    /\ Contains(SECTION, lines[1]) /\ Contains(ENDSECTION, lines[3])
    /\ Contains(SECTION, lines[4]) /\ Contains(ENDSECTION, lines[6])
    /\ new_lines[2] # lines[2]
    /\ new_lines[5] # lines[5]
    /\ new_lines[5] = new_lines[2]

\* record n has been opened for writing during the run
Written(n) == \E k \in 1..Len(opens) : opens[k] = <<n, "w">>

\* what a complete rewrite of record n leaves: a function of the original
\* content of n and of the selector, and of nothing else
Result(n) == Expected(readlines(fs0[n]), reset)

\* C17: every call starts its loop with in_section false, nothing emitted
\* and nothing modified, whatever the call before left; a file changes only
\* through the call on it; and what a call leaves in its file is determined
\* by the original content of that file and the selector (all of the
\* transformed lines, or a part of them if the write failed), whichever
\* records were processed before it
C17_NoLeakBetweenRecords ==
    /\ (pc = "for" /\ ppc = "for" /\ li = 1)
       => (~in_section /\ ~modified /\ new_lines = <<>>)
    /\ \A n \in Names :
          IF ~Written(n) THEN fs[n] = fs0[n]
          ELSE LET r == Result(n)
               IN  IF ~ErrorPrinted(n) THEN fs[n] = writelines(r)
                   ELSE \/ fs[n] = fs0[n]
                        \/ \E m \in 0..(Len(r) - 1) :
                              fs[n] = writelines(SubSeq(r, 1, m))

\* the second record, which has no [SECTION] line, has been processed and
\* left alone after a first record that ended inside a section never closed
\* and was rewritten
C17_Witness ==
    /\ pc = "for"
    /\ idx = 2
    /\ ppc = "returned"
    /\ Len(userfiles) = 2
    /\ Written(userfiles[1])
    /\ ~ErrorPrinted(userfiles[1])
    /\ LET first == readlines(fs0[userfiles[1]])
       IN  Inside(first, Len(first) + 1)
    /\ \E i \in 1..Len(lines) : HasPrefix(lines[i], DAYUP)
    /\ reset.day
    /\ ~Written(userfiles[2])
    /\ fs[userfiles[2]] = fs0[userfiles[2]]

\* the records of the batch, among the first k, that were rewritten
\* completely and without error
Rewritten(k) ==
    {j \in 1..k : j <= Len(userfiles)
                  /\ Written(userfiles[j]) /\ ~ErrorPrinted(userfiles[j])}

\* C18: the success counter is the number of records processed so far that
\* were rewritten completely and without error (one step of at most 1 per
\* record, none for a record that failed or was not written); it never
\* exceeds the size of the batch, and the count of the whole batch is what
\* the run reports at its end
C18_SuccessCounter ==
    /\ pc \in {"for", "done"}
       => /\ success_count = Cardinality(Rewritten(idx - 1))
          /\ success_count <= Len(userfiles)
    /\ pc = "done"
       => /\ idx = Len(userfiles) + 1
          /\ stdout[Len(stdout)] = <<"Successfully reset stats in", success_count>>

\* a run over two records has ended reporting 1: one record was rewritten,
\* the call on the other printed an error
C18_Witness ==
    /\ pc = "done"
    /\ Len(userfiles) = 2
    /\ success_count = 1
    /\ \E n \in Names : ErrorPrinted(n)
    /\ \E n \in Names : Written(n) /\ ~ErrorPrinted(n)

====
